---- MODULE Spec2Model ----
(***************************************************************************)
(* Verification model of lyrics-chord-detector.                            *)
(*                                                                         *)
(*  - audioProcessor (src/unnamed/part_014): analyzeChords, the Whisper    *)
(*    singleton, transcribeAudio, detectChords and processAudioFile.       *)
(*  - songUtils (src/frontend/src/lib/songUtils.js) and the copy of        *)
(*    transformSongData kept in the sidebar App (src/unnamed/part_007).    *)
(*  - useAdaptedData of ResultsScreen                                      *)
(*    (src/frontend/src/components/ProcessingScreen.jsx).                  *)
(*  - the screen-based App (src/unnamed/part_005), the sidebar App         *)
(*    (src/frontend/src/App.jsx), DemoPreview and UploadScreen             *)
(*    (src/frontend/src/components).                                       *)
(*                                                                         *)
(* Each part has its own specification; the variables of the other parts   *)
(* keep their idle values in it.                                           *)
(***************************************************************************)
EXTENDS Integers, Sequences, FiniteSets, TLC

VARIABLES
    \* ---- analyzeChords (part_014:107-214)
    audioData,      \* the samples, as a sequence of hopSize-sample blocks; a
                    \* block is the pitch-class energy (12 bins) of its samples
    sampleRate,     \* samples per second
    winStart,       \* the outer loop variable i (a sample index)
    chords,         \* the ChordEvent list built so far
    win,            \* the iteration run last: its i, the length of chords
                    \* when it began, and its locals (frame count, avgChroma,
                    \* bestChord, bestScore); i = -1 before the first
    apc,            \* "loop" while the outer for runs, "done" once returned
    firstRun,       \* whether analyzeChords has already returned once for
                    \* these samples, and the list it returned then
    \* ---- the Whisper singleton and processAudioFile (part_014:9-102, 219-248)
    whisperPipeline,   \* the module variable: "null" or "pipeline"
    pipelineCalls,     \* how many times pipeline(...) has been called
    pipelinesBuilt,    \* how many of those calls have resolved to a pipeline
    ppc,               \* per call of processAudioFile: its position
    tpc,               \* per call: the position of its transcribeAudio
    dpc,               \* per call: the position of its detectChords
    transcriberCalls,  \* per call: how many times transcriber(...) was called
    progress,          \* per call: the events passed to onProgress, in order
    result,            \* per call: the object returned (NoResult if none)
    \* ---- transformSongData (songUtils.js:14-132, part_007:488-575)
    backendData,    \* the backend response: structure, segments, aligned_chords
    duration,       \* the duration of the track the response describes
    songData,       \* what transformSongData of songUtils.js returned
    songDataApp,    \* what transformSongData of the sidebar App returned
    lyricsData,     \* what useAdaptedData made of songData for ResultsScreen
    songDataAgain,  \* what a second call of transformSongData returned
    xpc,            \* "call" before transformSongData runs, "app" and "done"
                    \* after each copy has run, "shown" once adapted, "again"
                    \* after the second call
    \* ---- the screen-based App (part_005)
    currentScreen,  \* "upload", "processing" or "result"
    fileName,       \* the name shown: which request set it and from what
    trackInfo,      \* the request whose track is shown while processing
    rawResult,      \* the backend response kept (NoRawResult for null)
    appSongData,    \* the App's songData state (NoChart for null)
    requests,       \* per call of handleFileSelect / handleSpotifySubmit:
                    \* its kind, its position, the response it got
    \* ---- the sidebar App (frontend/src/App.jsx)
    file,           \* the selected file (0 for null)
    loading,        \* a request is being processed
    error,          \* the error message shown ("null" for none)
    appResult,      \* the App's result state (NoAppResult for null)
    appProgress,    \* the App's progress text
    pending,        \* the call of handleProcess awaiting its response: the
                    \* file it sent, its position, the response status
    processCalls,   \* how many times handleProcess has been called
    \* ---- UploadScreen (components/UploadScreen.jsx)
    isDragging,     \* a drag is over the upload card
    selected,       \* the files passed to onFileSelect so far, in order
    \* ---- DemoPreview (components/DemoPreview.jsx)
    lines,          \* formattedOutput.split('\n'): a line is the sequence of
                    \* its whitespace-separated tokens, a token the sequence
                    \* of its characters
    rendered        \* what renderLine returned for the lines mapped so far

chordVars == <<audioData, sampleRate, winStart, chords, win, apc, firstRun>>

procVars == <<whisperPipeline, pipelineCalls, pipelinesBuilt, ppc, tpc, dpc,
              transcriberCalls, progress, result>>

xformVars ==
    <<backendData, duration, songData, songDataApp, lyricsData, songDataAgain, xpc>>

screenVars ==
    <<currentScreen, fileName, trackInfo, rawResult, appSongData, requests>>

sidebarVars ==
    <<file, loading, error, appResult, appProgress, pending, processCalls>>

uploadVars == <<isDragging, selected>>

demoVars == <<lines, rendered>>

uiVars == <<screenVars, sidebarVars, uploadVars, demoVars>>

vars == <<chordVars, procVars, xformVars, uiVars>>

\* What an action of one part leaves unchanged in the other parts.
outsideChords == <<procVars, xformVars, uiVars>>

outsideProc == <<chordVars, xformVars, uiVars>>

outsideXform == <<chordVars, procVars, uiVars>>

outsideScreens ==
    <<chordVars, procVars, xformVars, sidebarVars, uploadVars, demoVars>>

outsideSidebar ==
    <<chordVars, procVars, xformVars, screenVars, uploadVars, demoVars>>

outsideUpload ==
    <<chordVars, procVars, xformVars, screenVars, sidebarVars, demoVars>>

outsideDemo ==
    <<chordVars, procVars, xformVars, screenVars, sidebarVars, uploadVars>>

-----------------------------------------------------------------------------
(* Generic helpers                                                         *)

RECURSIVE SumTo(_, _)
\* f[1] + ... + f[n]
SumTo(f, n) == IF n = 0 THEN 0 ELSE f[n] + SumTo(f, n - 1)

Bins == 1..12

\* The 12-bin vector with bins f[1], ..., f[12].
Vec(f) == <<f[1], f[2], f[3], f[4], f[5], f[6], f[7], f[8], f[9], f[10],
            f[11], f[12]>>

ZeroChroma == <<0, 0, 0, 0, 0, 0, 0, 0, 0, 0, 0, 0>>

-----------------------------------------------------------------------------
(* analyzeChords: constants and the template table                         *)

hopSize == 2048

frameSize == 4096

\* Object.entries(chordTemplates) enumerates in insertion order.
chordTemplates == <<
    [name |-> "C",  template |-> <<1, 0, 0, 0, 1, 0, 0, 1, 0, 0, 0, 0>>],
    [name |-> "C#", template |-> <<0, 1, 0, 0, 0, 1, 0, 0, 1, 0, 0, 0>>],
    [name |-> "D",  template |-> <<0, 0, 1, 0, 0, 0, 1, 0, 0, 1, 0, 0>>],
    [name |-> "D#", template |-> <<0, 0, 0, 1, 0, 0, 0, 1, 0, 0, 1, 0>>],
    [name |-> "E",  template |-> <<0, 0, 0, 0, 1, 0, 0, 0, 1, 0, 0, 1>>],
    [name |-> "F",  template |-> <<1, 0, 0, 0, 0, 1, 0, 0, 0, 1, 0, 0>>],
    [name |-> "F#", template |-> <<0, 1, 0, 0, 0, 0, 1, 0, 0, 0, 1, 0>>],
    [name |-> "G",  template |-> <<0, 0, 1, 0, 0, 0, 0, 1, 0, 0, 0, 1>>],
    [name |-> "G#", template |-> <<1, 0, 0, 1, 0, 0, 0, 0, 1, 0, 0, 0>>],
    [name |-> "A",  template |-> <<0, 1, 0, 0, 1, 0, 0, 0, 0, 1, 0, 0>>],
    [name |-> "A#", template |-> <<0, 0, 1, 0, 0, 1, 0, 0, 0, 0, 1, 0>>],
    [name |-> "B",  template |-> <<0, 0, 0, 1, 0, 0, 1, 0, 0, 0, 0, 1>>],
    [name |-> "Cm", template |-> <<1, 0, 0, 1, 0, 0, 0, 1, 0, 0, 0, 0>>],
    [name |-> "Dm", template |-> <<0, 0, 1, 0, 0, 1, 0, 0, 1, 0, 0, 0>>],
    [name |-> "Em", template |-> <<0, 0, 0, 0, 1, 0, 0, 1, 0, 0, 0, 1>>],
    [name |-> "Fm", template |-> <<1, 0, 0, 0, 0, 1, 0, 0, 1, 0, 0, 0>>],
    [name |-> "Gm", template |-> <<0, 0, 1, 0, 0, 0, 0, 1, 0, 0, 1, 0>>],
    [name |-> "Am", template |-> <<0, 1, 0, 0, 1, 0, 0, 0, 1, 0, 0, 0>>] >>

TemplateOf(chordName) ==
    LET n == CHOOSE m \in 1..Len(chordTemplates) :
                 chordTemplates[m].name = chordName
    IN  chordTemplates[n].template

\* const segmentLength = Math.floor(sampleRate * 2); sampleRate is an integer.
segmentLength(sr) == sr * 2

\* audioData.length
audioLength(data) == Len(data) * hopSize

-----------------------------------------------------------------------------
(* analyzeChords: one window                                               *)

\* audioData.slice(i, i + segmentLength), in blocks (slice clamps at the end).
segmentOf(data, i, sr) ==
    LET first == (i \div hopSize) + 1
        last  == IF (i + segmentLength(sr)) \div hopSize < Len(data)
                 THEN (i + segmentLength(sr)) \div hopSize ELSE Len(data)
    IN  SubSeq(data, first, last)

\* The values j of the inner for: j = 0; j < segment.length - frameSize; j += hopSize.
frameStarts(segment) ==
    { j \in {f * hopSize : f \in 0..Len(segment)} :
        j < Len(segment) * hopSize - frameSize }

\* Meyda.extract('chroma', frame): Meyda is an external library. The chroma of
\* a frame is the pitch-class energy of its samples, that is of the
\* frameSize \div hopSize blocks it spans.
MeydaChroma(segment, j) ==
    LET nb == frameSize \div hopSize
        b0 == j \div hopSize
    IN  Vec([k \in Bins |-> SumTo([n \in 1..nb |-> segment[b0 + n][k]], nb)])

\* chromaFeatures: one chroma per frame, in frame order.
chromaFeatures(segment) ==
    LET n == Cardinality(frameStarts(segment))
    IN  [f \in 1..n |-> MeydaChroma(segment, (f - 1) * hopSize)]

\* avgChroma after the averaging loop (lines 154-162): the bin sums over the
\* frames, divided by chromaFeatures.length. Kept as a fraction num[k] / den.
averageChroma(features) ==
    [num |-> Vec([k \in Bins |->
                SumTo([f \in 1..Len(features) |-> features[f][k]], Len(features))]),
     den |-> Len(features)]

MaxBin(v) == CHOOSE m \in {v[k] : k \in Bins} : \A k \in Bins : v[k] <= m

\* Normalisation (lines 165-170): every bin divided by maxVal when maxVal > 0.
\* (num[k] / den) / (max / den) = num[k] / max.
normalizeChroma(avg) ==
    IF MaxBin(avg.num) > 0
    THEN [num |-> avg.num, den |-> MaxBin(avg.num)]
    ELSE avg

\* The sum over the 12 bins of u[k] * v[k] (the for over k, lines 182-186).
SumProducts(u, v) ==
    u[1] * v[1] + u[2] * v[2] + u[3] * v[3] + u[4] * v[4] + u[5] * v[5]
        + u[6] * v[6] + u[7] * v[7] + u[8] * v[8] + u[9] * v[9]
        + u[10] * v[10] + u[11] * v[11] + u[12] * v[12]

dotProduct(avg, template) == SumProducts(avg.num, template)

normA(avg) == SumProducts(avg.num, avg.num)

normB(template) == SumProducts(template, template)

\* A similarity score (line 188) is dot / (sqrt(normA) * sqrt(normB) + 1e-10)
\* with dot = d / den and normA = a / den^2, that is
\*      d / (sqrt(a * b) + 1e-10 * den).
\* It is kept exactly, as the record [d, a, b]; bestScore = 0 is [0, 0, 0].
\* The 1e-10 guard is far below the gap between two different values of the
\* integers compared here, so it decides a comparison only when the two sides
\* are equal without it, and there it makes the score the smaller side.
score(avg, template) ==
    [d |-> dotProduct(avg, template), a |-> normA(avg), b |-> normB(template)]

ZeroScore == [d |-> 0, a |-> 0, b |-> 0]

\* Mutant of ScoreGreater: >= in place of > between two non-zero scores.
ScoreGreater_OrEqual(s, t) ==
    IF s.d = 0 THEN FALSE
    ELSE IF t.d = 0 THEN TRUE
    ELSE s.d * s.d * t.b >= t.d * t.d * s.b

\* s > t for two scores of the same window (same normA, same guard).
ScoreGreater(s, t) ==
    IF s.d = 0 THEN FALSE
    ELSE IF t.d = 0 THEN TRUE
    ELSE s.d * s.d * t.b > t.d * t.d * s.b

\* s > num / den for a score s and a positive rational.
ScoreExceeds(s, num, den) ==
    s.d > 0 /\ den * den * s.d * s.d > num * num * s.a * s.b

\* Mutant of roundHundredths: Math.floor in place of Math.round.
roundHundredths_Floor(s) ==
    CHOOSE k \in 0..101 :
        /\ (k = 0 \/ ScoreExceeds(s, k, 100))
        /\ ~ ScoreExceeds(s, k + 1, 100)

\* Math.round(bestScore * 100), in hundredths: the k with
\* k - 1/2 <= 100 * s < k + 1/2.
roundHundredths(s) ==
    CHOOSE k \in 0..101 :
        /\ (k = 0 \/ ScoreExceeds(s, 2 * k - 1, 200))
        /\ ~ ScoreExceeds(s, 2 * k + 1, 200)

RECURSIVE bestMatchUpTo(_, _)
\* The state (bestChord, bestScore) after the first n templates of the for
\* over Object.entries(chordTemplates) (lines 173-194).
bestMatchUpTo(avg, n) ==
    IF n = 0 THEN [bestChord |-> "null", bestScore |-> ZeroScore]
    ELSE LET prev == bestMatchUpTo(avg, n - 1)
             sc   == score(avg, chordTemplates[n].template)
         IN  IF ScoreGreater(sc, prev.bestScore)
             THEN [bestChord |-> chordTemplates[n].name, bestScore |-> sc]
             ELSE prev

bestMatch(avg) == bestMatchUpTo(avg, Len(chordTemplates))

\* Math.round(time * 10) with time = i / sampleRate, in tenths of a second.
roundTenths(i, sr) == (2 * 10 * i + sr) \div (2 * sr)

\* Mutant of aboveThreshold: the similarity test dropped.
aboveThreshold_NoThreshold(best) == best.bestChord # "null"

\* if (bestScore > 0.4 && bestChord)
aboveThreshold(best) ==
    ScoreExceeds(best.bestScore, 4, 10) /\ best.bestChord # "null"

\* Mutant of differsFromLast: the comparison with the last chord dropped.
differsFromLast_NoCheck(list, bestChord) == TRUE

\* if (!lastChord || lastChord.chord !== bestChord)
differsFromLast(list, bestChord) ==
    Len(list) = 0 \/ list[Len(list)].chord # bestChord

\* Lines 196-209: the list after the window at sample i with best match best.
pushChord(list, best, i, sr) ==
    IF aboveThreshold(best) /\ differsFromLast(list, best.bestChord)
    THEN Append(list, [chord      |-> best.bestChord,
                       time       |-> roundTenths(i, sr),
                       confidence |-> roundHundredths(best.bestScore)])
    ELSE list

\* The locals after the template loop, for n frames averaged into avg.
matchOf(n, avg) ==
    LET best == bestMatch(avg)
    IN  [frames |-> n, avgChroma |-> avg,
         bestChord |-> best.bestChord, bestScore |-> best.bestScore]

\* The iteration at sample i up to line 194: the number of frames, and, when
\* there is one (chromaFeatures.length > 0, line 152), avgChroma and the best
\* match.
windowMatch(data, i, sr) ==
    LET features == chromaFeatures(segmentOf(data, i, sr))
    IN  IF Len(features) > 0
        THEN matchOf(Len(features), normalizeChroma(averageChroma(features)))
        ELSE [frames |-> 0, avgChroma |-> [num |-> ZeroChroma, den |-> 1],
              bestChord |-> "null", bestScore |-> ZeroScore]

\* for (let i = 0; i < audioData.length - segmentLength; i += segmentLength)
loopGuard(data, i, sr) == i < audioLength(data) - segmentLength(sr)

-----------------------------------------------------------------------------
(* analyzeChords: inputs                                                   *)

MaxWindows == 2

SampleRates == {2 * hopSize, 3 * hopSize}

\* Pitch-class energies a block of samples may have: silence, each template,
\* the sum of the C and G templates, and two chromas that match no template
\* well (best similarity 0.402 and 0.333).
LowChroma == <<1, 4, 4, 0, 0, 0, 0, 0, 0, 0, 0, 0>>

WeakChroma == <<0, 0, 0, 0, 0, 0, 0, 0, 0, 1, 1, 1>>

TieChroma == Vec([k \in Bins |-> TemplateOf("C")[k] + TemplateOf("G")[k]])

ChromaInputs ==
    {ZeroChroma, LowChroma, WeakChroma, TieChroma}
        \cup {chordTemplates[n].template : n \in 1..Len(chordTemplates)}

\* n blocks of chroma v
Blocks(v, n) == [b \in 1..n |-> v]

RECURSIVE Flatten(_)
Flatten(ss) == IF ss = <<>> THEN <<>> ELSE Head(ss) \o Flatten(Tail(ss))

\* The 10-second clip of the end-to-end scenario: 0-3 s silence, 3-7 s pure
\* C major, 7-10 s pure G major.
SyntheticClip(sr) ==
    LET bps == sr \div hopSize
    IN  Blocks(ZeroChroma, 3 * bps) \o Blocks(TemplateOf("C"), 4 * bps)
            \o Blocks(TemplateOf("G"), 3 * bps)

\* Clips of up to MaxWindows two-second stretches of constant chroma, followed
\* by tail more blocks of the last one (an incomplete window).
AudioInputs(sr) ==
    LET bpw == segmentLength(sr) \div hopSize
    IN  { Flatten([w \in 1..Len(ws) |-> Blocks(ws[w], bpw)])
              \o Blocks(IF ws = <<>> THEN ZeroChroma ELSE ws[Len(ws)], tail) :
            ws \in UNION {[1..n -> ChromaInputs] : n \in 0..MaxWindows},
            tail \in {0, 1} }
        \cup {SyntheticClip(sr)}

-----------------------------------------------------------------------------
(* analyzeChords: the state machine                                        *)

NoWindow ==
    [i |-> -1, lenBefore |-> 0,
     match |-> [frames |-> 0, avgChroma |-> [num |-> ZeroChroma, den |-> 1],
                bestChord |-> "null", bestScore |-> ZeroScore]]

NoFirstRun == [returned |-> FALSE, chords |-> <<>>]

ChordsIdle ==
    /\ audioData = <<>>
    /\ sampleRate = 0
    /\ winStart = 0
    /\ chords = <<>>
    /\ win = NoWindow
    /\ apc = "idle"
    /\ firstRun = NoFirstRun

InitChords ==
    /\ sampleRate \in SampleRates
    /\ audioData \in AudioInputs(sampleRate)
    /\ winStart = 0
    /\ chords = <<>>
    /\ win = NoWindow
    /\ apc = "loop"
    /\ firstRun = NoFirstRun

\* One iteration of the outer for (lines 137-211).
AnalyzeWindow ==
    /\ apc = "loop"
    /\ loopGuard(audioData, winStart, sampleRate)
    /\ \E m \in {windowMatch(audioData, winStart, sampleRate)} :
           /\ chords' = IF m.frames > 0
                        THEN pushChord(chords, m, winStart, sampleRate)
                        ELSE chords
           /\ win' = [i |-> winStart, lenBefore |-> Len(chords), match |-> m]
    /\ winStart' = winStart + segmentLength(sampleRate)
    /\ UNCHANGED <<audioData, sampleRate, apc, firstRun, outsideChords>>

\* The loop ends and analyzeChords returns chords (line 213).
AnalyzeReturn ==
    /\ apc = "loop"
    /\ ~ loopGuard(audioData, winStart, sampleRate)
    /\ apc' = "done"
    /\ UNCHANGED <<audioData, sampleRate, winStart, chords, win, firstRun,
                   outsideChords>>

NextChords == AnalyzeWindow \/ AnalyzeReturn

\* Mutant of chordsAtEntry: the list of the previous call is kept.
chordsAtEntry_Kept(previous) == previous

\* const chords = [] (line 108): every call starts from a fresh list, whatever
\* list the previous call built.
chordsAtEntry(previous) == <<>>

\* analyzeChords is called once more with the same samples and sample rate,
\* after its first call has returned: the locals are initialised anew
\* (lines 108-137); the module keeps nothing of the first call.
AnalyzeAgain ==
    /\ apc = "done"
    /\ ~ firstRun.returned
    /\ firstRun' = [returned |-> TRUE, chords |-> chords]
    /\ chords' = chordsAtEntry(chords)
    /\ winStart' = 0
    /\ win' = NoWindow
    /\ apc' = "loop"
    /\ UNCHANGED <<audioData, sampleRate, outsideChords>>

\* Clips for the repeated call: as AudioInputs, over fewer chromas.
RerunChromas ==
    {ZeroChroma, WeakChroma, TieChroma, TemplateOf("C"), TemplateOf("Am")}

RerunInputs(sr) ==
    LET bpw == segmentLength(sr) \div hopSize
    IN  { Flatten([w \in 1..Len(ws) |-> Blocks(ws[w], bpw)])
              \o Blocks(IF ws = <<>> THEN ZeroChroma ELSE ws[Len(ws)], tail) :
            ws \in UNION {[1..n -> RerunChromas] : n \in 0..MaxWindows},
            tail \in {0, 1} }
        \cup {SyntheticClip(sr)}

InitChordsTwice ==
    /\ sampleRate \in SampleRates
    /\ audioData \in RerunInputs(sampleRate)
    /\ winStart = 0
    /\ chords = <<>>
    /\ win = NoWindow
    /\ apc = "loop"
    /\ firstRun = NoFirstRun

-----------------------------------------------------------------------------
(* processAudioFile, transcribeAudio, loadWhisperModel, detectChords        *)
(*                                                                         *)
(* JavaScript runs each piece of code between two awaits to completion, so *)
(* an action is one such piece: the synchronous start of a call, or the    *)
(* continuation run when a promise (pipeline, transcriber, FileReader,     *)
(* decodeAudioData, Promise.all) settles.                                  *)

NumCalls == 2

Calls == 1..NumCalls

NoResult == [text |-> <<>>, chords |-> <<>>, filename |-> 0]

ProcIdle ==
    /\ whisperPipeline = "null"
    /\ pipelineCalls = 0
    /\ pipelinesBuilt = 0
    /\ ppc = <<>>
    /\ tpc = <<>>
    /\ dpc = <<>>
    /\ transcriberCalls = <<>>
    /\ progress = <<>>
    /\ result = <<>>

InitProc ==
    /\ whisperPipeline = "null"
    /\ pipelineCalls = 0
    /\ pipelinesBuilt = 0
    /\ ppc = [c \in Calls |-> "idle"]
    /\ tpc = [c \in Calls |-> "idle"]
    /\ dpc = [c \in Calls |-> "idle"]
    /\ transcriberCalls = [c \in Calls |-> 0]
    /\ progress = [c \in Calls |-> <<>>]
    /\ result = [c \in Calls |-> NoResult]

\* loadWhisperModel up to its await (lines 15-17): TRUE when it calls
\* pipeline(...), FALSE when it returns the cached whisperPipeline.
startsLoad(cached) == cached = "null"

\* Mutant of allSucceeded: the join taken as soon as one task has succeeded.
allSucceeded_Any(t, d) == t = "done" \/ d = "done"

\* Promise.all (line 224) fulfils when both promises have fulfilled.
allSucceeded(t, d) == t = "done" /\ d = "done"

\* Mutant of anyFailed: a rejection of the transcription is not seen.
anyFailed_DetectOnly(t, d) == d = "failed"

\* Promise.all rejects as soon as one of the promises has rejected.
anyFailed(t, d) == t = "failed" \/ d = "failed"

\* processAudioFile(audioFile, onProgress) is called (lines 219-227) and runs
\* to its await: the 'start' event, then transcribeAudio up to its first
\* await (the 'loading' event and loadWhisperModel up to its own await), then
\* the executor of detectChords (the 'processing' event, the AudioContext,
\* readAsArrayBuffer). audioContextOk is FALSE when the AudioContext
\* constructor throws (lines 75, 98-99).
ProcessStart(c, audioContextOk) ==
    /\ ppc[c] = "idle"
    /\ ppc' = [ppc EXCEPT ![c] = "awaiting"]
    /\ progress' = [progress EXCEPT ![c] = <<"start", "loading", "analyzing">>]
    /\ IF startsLoad(whisperPipeline)
       THEN /\ pipelineCalls' = pipelineCalls + 1
            /\ tpc' = [tpc EXCEPT ![c] = "loading"]
       ELSE /\ pipelineCalls' = pipelineCalls
            /\ tpc' = [tpc EXCEPT ![c] = "modelReady"]
    /\ dpc' = [dpc EXCEPT ![c] = IF audioContextOk THEN "reading" ELSE "failed"]
    /\ UNCHANGED <<whisperPipeline, pipelinesBuilt, transcriberCalls, result,
                   outsideProc>>

\* The promise of pipeline(...) fulfils: whisperPipeline is assigned (line 17)
\* and loadWhisperModel returns it (line 31).
PipelineResolves(c) ==
    /\ tpc[c] = "loading"
    /\ whisperPipeline' = "pipeline"
    /\ pipelinesBuilt' = pipelinesBuilt + 1
    /\ tpc' = [tpc EXCEPT ![c] = "modelReady"]
    /\ UNCHANGED <<pipelineCalls, ppc, dpc, transcriberCalls, progress, result,
                   outsideProc>>

\* The promise of pipeline(...) rejects: loadWhisperModel throws, and the
\* catch of transcribeAudio rethrows (lines 61-64).
PipelineRejects(c) ==
    /\ tpc[c] = "loading"
    /\ tpc' = [tpc EXCEPT ![c] = "failed"]
    /\ UNCHANGED <<whisperPipeline, pipelineCalls, pipelinesBuilt, ppc, dpc,
                   transcriberCalls, progress, result, outsideProc>>

\* transcribeAudio resumes with the transcriber (lines 42-52): the
\* 'processing' event, then the call of transcriber(...).
TranscriberCalled(c) ==
    /\ tpc[c] = "modelReady"
    /\ tpc' = [tpc EXCEPT ![c] = "transcribing"]
    /\ transcriberCalls' = [transcriberCalls EXCEPT ![c] = @ + 1]
    /\ progress' = [progress EXCEPT ![c] = Append(@, "transcribing")]
    /\ UNCHANGED <<whisperPipeline, pipelineCalls, pipelinesBuilt, ppc, dpc,
                   result, outsideProc>>

\* transcriber(...) fulfils and transcribeAudio returns (lines 55-60), or it
\* rejects and the catch rethrows (lines 61-64).
TranscriberSettles(c, ok) ==
    /\ tpc[c] = "transcribing"
    /\ tpc' = [tpc EXCEPT ![c] = IF ok THEN "done" ELSE "failed"]
    /\ UNCHANGED <<whisperPipeline, pipelineCalls, pipelinesBuilt, ppc, dpc,
                   transcriberCalls, progress, result, outsideProc>>

\* The FileReader finishes: onload calls decodeAudioData (lines 78-81), or
\* onerror rejects (line 96).
ReaderSettles(c, ok) ==
    /\ dpc[c] = "reading"
    /\ dpc' = [dpc EXCEPT ![c] = IF ok THEN "decoding" ELSE "failed"]
    /\ UNCHANGED <<whisperPipeline, pipelineCalls, pipelinesBuilt, ppc, tpc,
                   transcriberCalls, progress, result, outsideProc>>

\* decodeAudioData fulfils, analyzeChords runs and the promise is resolved
\* with its chords (lines 84-90), or it rejects (lines 91-93).
DecodeSettles(c, ok) ==
    /\ dpc[c] = "decoding"
    /\ dpc' = [dpc EXCEPT ![c] = IF ok THEN "done" ELSE "failed"]
    /\ UNCHANGED <<whisperPipeline, pipelineCalls, pipelinesBuilt, ppc, tpc,
                   transcriberCalls, progress, result, outsideProc>>

\* Promise.all fulfils: the 'complete' event and the returned object
\* (lines 229-243). The transcription and the chords are those of this call.
ProcessReturns(c) ==
    /\ ppc[c] = "awaiting"
    /\ allSucceeded(tpc[c], dpc[c])
    /\ ppc' = [ppc EXCEPT ![c] = "returned"]
    /\ progress' = [progress EXCEPT ![c] = Append(@, "complete")]
    /\ result' = [result EXCEPT ![c] = [text |-> <<"transcription", c, tpc[c]>>,
                                         chords |-> <<"chords", c, dpc[c]>>,
                                         filename |-> c]]
    /\ UNCHANGED <<whisperPipeline, pipelineCalls, pipelinesBuilt, tpc, dpc,
                   transcriberCalls, outsideProc>>

\* Promise.all rejects: the catch rethrows (lines 244-247).
ProcessThrows(c) ==
    /\ ppc[c] = "awaiting"
    /\ anyFailed(tpc[c], dpc[c])
    /\ ppc' = [ppc EXCEPT ![c] = "thrown"]
    /\ UNCHANGED <<whisperPipeline, pipelineCalls, pipelinesBuilt, tpc, dpc,
                   transcriberCalls, progress, result, outsideProc>>

NextProc ==
    \E c \in Calls :
        \/ \E ok \in BOOLEAN : ProcessStart(c, ok)
        \/ PipelineResolves(c)
        \/ PipelineRejects(c)
        \/ TranscriberCalled(c)
        \/ \E ok \in BOOLEAN : TranscriberSettles(c, ok)
        \/ \E ok \in BOOLEAN : ReaderSettles(c, ok)
        \/ \E ok \in BOOLEAN : DecodeSettles(c, ok)
        \/ ProcessReturns(c)
        \/ ProcessThrows(c)

-----------------------------------------------------------------------------
(* transformSongData                                                       *)
(*                                                                         *)
(* A string is kept as the sequence of its space-separated tokens: "" is   *)
(* <<>>, "hello" is <<"hello">>, "C G" is <<"C", "G">>. A segment's words  *)
(* field is the pair hasWords (FALSE when words is null or omitted) and     *)
(* words (the array, <<>> when there is none).                              *)

\* const sections = backendData.structure.map(...) (songUtils.js:17-23). The
\* id `section-${index}` is kept as the index.
\* Mutant of sectionsOf: end copied from section.start.
sectionsOf_EndFromStart(bd) ==
    [n \in 1..Len(bd.structure) |->
        [id    |-> n - 1,
         name  |-> bd.structure[n].type,
         start |-> bd.structure[n].start,
         end   |-> bd.structure[n].start,
         type  |-> bd.structure[n].type]]

sectionsOf(bd) ==
    [n \in 1..Len(bd.structure) |->
        [id    |-> n - 1,
         name  |-> bd.structure[n].type,
         start |-> bd.structure[n].start,
         end   |-> bd.structure[n].end,
         type  |-> bd.structure[n].type]]

\* backendData.segments.filter(...) (songUtils.js:32-35).
sectionSegments(bd, section) ==
    SelectSeq(bd.segments,
              LAMBDA seg :
                  \/ (seg.start >= section.start /\ seg.start < section.end)
                  \/ (seg.end > section.start /\ seg.end <= section.end))

\* backendData.aligned_chords.filter(...) (songUtils.js:40-42).
sectionChords(bd, section) ==
    SelectSeq(bd.aligned_chords,
              LAMBDA c : c.time >= section.start /\ c.time < section.end)

\* The lines of a section without segments (songUtils.js:44-50).
instrumentalLines(bd, section) ==
    LET cs == sectionChords(bd, section)
    IN  IF Len(cs) > 0
        THEN << [chords |-> [n \in 1..Len(cs) |-> <<cs[n].chord>>],
                 words  |-> [n \in 1..Len(cs) |-> <<>>]] >>
        ELSE <<>>

\* chordsInSeg (songUtils.js:98-100).
chordsInSeg(bd, segment) ==
    SelectSeq(bd.aligned_chords,
              LAMBDA c : c.time >= segment.start /\ c.time < segment.end)

\* chordsInSeg.find(c => c.time >= w.start && c.time < w.end), then
\* chord ? chord.chord : "" (songUtils.js:108-111).
chordOfWord(cs, w) ==
    LET hits == SelectSeq(cs, LAMBDA c : c.time >= w.start /\ c.time < w.end)
    IN  IF Len(hits) > 0 THEN <<hits[1].chord>> ELSE <<>>

\* chordsInSeg.map(c => c.chord).join(" "), "" for none (songUtils.js:118).
chordsText(cs) == [n \in 1..Len(cs) |-> cs[n].chord]

\* text.trim().split(/\s+/): the tokens, and [""] for the empty string.
splitText(text) ==
    IF text = <<>> THEN << <<>> >> ELSE [n \in 1..Len(text) |-> <<text[n]>>]

\* What the first loop of songUtils.js (lines 58-63) pushes on lineWords:
\* the word of every element of segment.words || the split text.
firstLoopWords(segment) ==
    IF segment.hasWords
    THEN [n \in 1..Len(segment.words) |-> <<segment.words[n].word>>]
    ELSE splitText(segment.text)

\* The branch for a segment with word timestamps (songUtils.js:104-112).
wordLine(cs, segment) ==
    [chords |-> [n \in 1..Len(segment.words) |-> chordOfWord(cs, segment.words[n])],
     words  |-> [n \in 1..Len(segment.words) |-> <<segment.words[n].word>>]]

\* Mutant of fallbackLine: only the first chord of the segment is kept.
fallbackLine_FirstChordOnly(cs, segment) ==
    [chords |-> << IF Len(cs) > 0 THEN <<cs[1].chord>> ELSE <<>> >>,
     words  |-> <<segment.text>>]

\* The fallback branch of songUtils.js (lines 113-119).
fallbackLine(cs, segment) ==
    [chords |-> <<chordsText(cs)>>, words |-> <<segment.text>>]

\* The line of one segment in songUtils.js (lines 53-124): lineWords holds
\* the words of the first loop followed by those of the branch taken.
segmentLine(bd, segment) ==
    LET cs     == chordsInSeg(bd, segment)
        branch == IF segment.hasWords /\ Len(segment.words) > 0
                  THEN wordLine(cs, segment)
                  ELSE fallbackLine(cs, segment)
    IN  [chords |-> branch.chords,
         words  |-> firstLoopWords(segment) \o branch.words]

\* The fallback branch of the sidebar App (part_007:549-562):
\* split(/\s+/).filter(Boolean) drops the empty token.
fallbackLineApp(cs, segment) ==
    IF Len(segment.text) = 0
    THEN [chords |-> <<chordsText(cs)>>, words |-> <<segment.text>>]
    ELSE [chords |-> [n \in 1..Len(segment.text) |->
                        IF n = 1 THEN chordsText(cs) ELSE <<>>],
          words  |-> [n \in 1..Len(segment.text) |-> <<segment.text[n]>>]]

\* The line of one segment in the sidebar App (part_007:527-567).
segmentLineApp(bd, segment) ==
    LET cs == chordsInSeg(bd, segment)
    IN  IF segment.hasWords /\ Len(segment.words) > 0
        THEN wordLine(cs, segment)
        ELSE fallbackLineApp(cs, segment)

\* lyrics[section.id] in songUtils.js (lines 27-129).
sectionLines(bd, section) ==
    LET segs == sectionSegments(bd, section)
    IN  IF Len(segs) = 0
        THEN instrumentalLines(bd, section)
        ELSE [k \in 1..Len(segs) |-> segmentLine(bd, segs[k])]

\* lyrics[section.id] in the sidebar App (part_007:501-572).
sectionLinesApp(bd, section) ==
    LET segs == sectionSegments(bd, section)
    IN  IF Len(segs) = 0
        THEN instrumentalLines(bd, section)
        ELSE [k \in 1..Len(segs) |-> segmentLineApp(bd, segs[k])]

\* transformSongData of songUtils.js for a response that has a structure.
transformSongData(bd) ==
    [sections |-> sectionsOf(bd),
     lyrics   |-> [n \in 1..Len(bd.structure) |->
                      sectionLines(bd, sectionsOf(bd)[n])]]

\* transformSongData of the sidebar App (part_007:488-575).
transformSongDataApp(bd) ==
    [sections |-> sectionsOf(bd),
     lyrics   |-> [n \in 1..Len(bd.structure) |->
                      sectionLinesApp(bd, sectionsOf(bd)[n])]]

-----------------------------------------------------------------------------
(* useAdaptedData (ProcessingScreen.jsx:142-187, part_009:6-51)            *)
(*                                                                         *)
(* Here the characters count: a rendered string is the sequence of its     *)
(* characters.                                                             *)

\* The characters of a word token.
Chars(token) ==
    CASE token = "oh"   -> <<"o", "h">>
      [] token = "baby" -> <<"b", "a", "b", "y">>
      [] token = "yes"  -> <<"y", "e", "s">>
      [] token = "I"    -> <<"I">>

RECURSIVE StrChars(_)
\* The characters of a string kept as tokens: the tokens joined by one space.
StrChars(str) ==
    IF str = <<>> THEN <<>>
    ELSE IF Len(str) = 1 THEN Chars(str[1])
    ELSE Chars(str[1]) \o <<" ">> \o StrChars(Tail(str))

RECURSIVE TrimLeft(_)
TrimLeft(cs) ==
    IF cs # <<>> /\ Head(cs) = " " THEN TrimLeft(Tail(cs)) ELSE cs

RECURSIVE TrimRight(_)
TrimRight(cs) ==
    IF cs # <<>> /\ cs[Len(cs)] = " "
    THEN TrimRight(SubSeq(cs, 1, Len(cs) - 1)) ELSE cs

\* String.prototype.trim
Trim(cs) == TrimRight(TrimLeft(cs))

RECURSIVE currentTextUpTo(_, _)
\* currentText after the first n words of line.words.forEach:
\* currentText += word + " " (ProcessingScreen.jsx:171).
currentTextUpTo(line, n) ==
    IF n = 0 THEN <<>>
    ELSE currentTextUpTo(line, n - 1) \o StrChars(line.words[n]) \o <<" ">>

\* const startPos = currentText.length, at the word of index idx (0-based).
startPos(line, idx) == Len(currentTextUpTo(line, idx))

\* The indexes idx (0-based) at which if (chord) holds: line.chords[idx] is
\* neither undefined nor "" (ProcessingScreen.jsx:164-166).
chordIndexes(line) ==
    SelectSeq([n \in 1..Len(line.words) |-> n - 1],
              LAMBDA idx : idx < Len(line.chords) /\ line.chords[idx + 1] # <<>>)

\* rawLines.map(line => ...) (ProcessingScreen.jsx:151-179).
adaptLine(line) ==
    LET ci == chordIndexes(line)
    IN  [lyrics    |-> Trim(currentTextUpTo(line, Len(line.words))),
         chords    |-> [m \in 1..Len(ci) |-> line.chords[ci[m] + 1]],
         positions |-> [m \in 1..Len(ci) |-> startPos(line, ci[m])]]

\* useAdaptedData(songData) for a chart that has sections.
useAdaptedData(sd) ==
    [n \in 1..Len(sd.sections) |->
        [section |-> sd.sections[n].name,
         lines   |-> [k \in 1..Len(sd.lyrics[n]) |-> adaptLine(sd.lyrics[n][k])]]]

-----------------------------------------------------------------------------
(* transformSongData: inputs                                               *)

MaxTime == 3

MaxSections == 2

MaxSegments == 1

MaxWords == 2

MaxChords == 2

WordTokens == <<"oh", "baby", "yes", "I">>

ChordNames == <<"C", "G", "Am", "F", "Dm">>

\* The elements of a set of numbers in increasing order.
Sorted(S) ==
    CHOOSE q \in [1..Cardinality(S) -> S] :
        \A m, n \in 1..Cardinality(S) : m < n => q[m] < q[n]

\* The intervals [a, b) with lo <= a < b <= hi.
Intervals(lo, hi) == {iv \in (lo..hi) \X (lo..hi) : iv[1] < iv[2]}

\* Sequences of at most n intervals of [lo, hi), in order and disjoint.
IntervalLists(lo, hi, n) ==
    {q \in UNION {[1..k -> Intervals(lo, hi)] : k \in 0..n} :
        \A m \in 1..(Len(q) - 1) : q[m][2] <= q[m + 1][1]}

\* The structures the backend returns for a track of duration d: at most
\* MaxSections contiguous sections that cover [0, d] (spec sections 3, 4.3).
TilingStructures(d) ==
    { LET b == Sorted(cuts \cup {0, d})
      IN  [n \in 1..(Len(b) - 1) |->
              [type |-> "verse", start |-> b[n], end |-> b[n + 1]]] :
        cuts \in {c \in SUBSET (1..(d - 1)) : Cardinality(c) < MaxSections} }

\* The first n tokens.
Tokens(n) == [m \in 1..n |-> WordTokens[m]]

\* The segments over [s, e): with timestamped words (at most MaxWords, in
\* order and disjoint inside the segment; text is then the words), or with
\* words null, omitted or empty and a text of 0..MaxWords tokens.
SegmentsOver(s, e) ==
    { [start |-> s, end |-> e, hasWords |-> TRUE,
       text  |-> Tokens(Len(ws)),
       words |-> [n \in 1..Len(ws) |->
                    [word |-> WordTokens[n], start |-> ws[n][1], end |-> ws[n][2]]]] :
        ws \in IntervalLists(s, e, MaxWords) \ {<<>>} }
    \cup
    { [start |-> s, end |-> e, hasWords |-> hw, text |-> Tokens(n), words |-> <<>>] :
        hw \in BOOLEAN, n \in 0..MaxWords }

\* At most MaxSegments segments of [0, d), in order and disjoint.
SegmentLists(d) ==
    UNION { {q \in [1..Len(ivs) -> UNION {SegmentsOver(iv[1], iv[2]) : iv \in Intervals(0, d)}] :
                \A n \in 1..Len(ivs) : q[n].start = ivs[n][1] /\ q[n].end = ivs[n][2]} :
            ivs \in IntervalLists(0, d, MaxSegments) }

\* At most MaxChords aligned chords at distinct times of [0, d), in temporal
\* order; consecutive chords differ.
ChordLists(d) ==
    { [n \in 1..Cardinality(ts) |-> [chord |-> ChordNames[n], time |-> Sorted(ts)[n]]] :
        ts \in {t \in SUBSET (0..(d - 1)) : Cardinality(t) <= MaxChords} }

BackendResponses(d) ==
    [structure : TilingStructures(d), segments : SegmentLists(d),
     aligned_chords : ChordLists(d)]

\* Structures of a faulty segmenter: a tiling structure with one boundary
\* off by one, so that a section ends before the next starts (a gap), ends
\* after the next starts (an overlap), the last ends before the duration, or
\* the first starts after 0.
MisalignedStructures(d) ==
    UNION { { [ts EXCEPT ![ne[1]].end = ne[2]] :
                ne \in {x \in (1..Len(ts)) \X (1..d) :
                           x[2] # ts[x[1]].end /\ x[2] > ts[x[1]].start} }
            \cup {[ts EXCEPT ![1].start = 1] : ne \in {x \in {1} : ts[1].end > 1}} :
            ts \in TilingStructures(d) }

MisalignedResponses(d) ==
    [structure : MisalignedStructures(d), segments : SegmentLists(d),
     aligned_chords : ChordLists(d)]

-----------------------------------------------------------------------------
(* transformSongData: the state machine                                    *)

NoSongData == [sections |-> <<>>, lyrics |-> <<>>]

XformIdle ==
    /\ backendData = [structure |-> <<>>, segments |-> <<>>, aligned_chords |-> <<>>]
    /\ duration = 0
    /\ songData = NoSongData
    /\ songDataApp = NoSongData
    /\ lyricsData = <<>>
    /\ songDataAgain = NoSongData
    /\ xpc = "idle"

InitXform ==
    /\ duration = MaxTime
    /\ backendData \in BackendResponses(duration)
    /\ songData = NoSongData
    /\ songDataApp = NoSongData
    /\ lyricsData = <<>>
    /\ songDataAgain = NoSongData
    /\ xpc = "call"

\* transformSongData is called with the response of a faulty segmenter.
InitXformMisaligned ==
    /\ duration = MaxTime
    /\ backendData \in MisalignedResponses(duration)
    /\ songData = NoSongData
    /\ songDataApp = NoSongData
    /\ lyricsData = <<>>
    /\ songDataAgain = NoSongData
    /\ xpc = "call"

\* transformSongData(backendData) is called, in songUtils.js.
Transform ==
    /\ xpc = "call"
    /\ songData' = transformSongData(backendData)
    /\ songDataApp' = songDataApp
    /\ xpc' = "app"
    /\ UNCHANGED <<backendData, duration, lyricsData, songDataAgain, outsideXform>>

\* The copy of transformSongData in the sidebar App is called with the same
\* response.
TransformApp ==
    /\ xpc = "app"
    /\ songDataApp' = transformSongDataApp(backendData)
    /\ xpc' = "done"
    /\ UNCHANGED <<backendData, duration, songData, lyricsData, songDataAgain,
                   outsideXform>>

\* ResultsScreen renders the chart of songUtils.js (part_005:171-175):
\* const lyricsData = useAdaptedData(songData) (ProcessingScreen.jsx:195).
Adapt ==
    /\ xpc = "done"
    /\ lyricsData' = useAdaptedData(songData)
    /\ xpc' = "shown"
    /\ UNCHANGED <<backendData, duration, songData, songDataApp, songDataAgain,
                   outsideXform>>

NextXform == Transform \/ TransformApp \/ Adapt

\* transformSongData of songUtils.js is called once more with the same
\* response object: it only reads backendData and builds new arrays.
TransformAgain ==
    /\ xpc = "shown"
    /\ songDataAgain' = transformSongData(backendData)
    /\ xpc' = "again"
    /\ UNCHANGED <<backendData, duration, songData, songDataApp, lyricsData,
                   outsideXform>>

-----------------------------------------------------------------------------
(* The screen-based App (part_005)                                         *)
(*                                                                         *)
(* An action is one piece of a handler between two awaits. A request is    *)
(* one call of handleFileSelect or handleSpotifySubmit; React state set by *)
(* a handler is named after the request that supplied it.                  *)

MaxRequests == 2

Requests == 1..MaxRequests

NoRequest == [kind |-> "none", rpc |-> "unused", status |-> "none", read |-> FALSE]

NoFileName == [of |-> 0, from |-> "none"]

NoRawResult == [of |-> 0, hasStructure |-> FALSE]

NoChart == [present |-> FALSE, of |-> 0]

ScreensIdle ==
    /\ currentScreen = "upload"
    /\ fileName = NoFileName
    /\ trackInfo = 0
    /\ rawResult = NoRawResult
    /\ appSongData = NoChart
    /\ requests = [r \in Requests |-> NoRequest]

\* useState('upload'), useState(''), useState(null) (lines 13-19).
InitScreens == ScreensIdle

\* The request a new call of a handler becomes: the first one not yet used.
IsNext(r) ==
    /\ requests[r].rpc = "unused"
    /\ \A q \in 1..(r - 1) : requests[q].rpc # "unused"

\* UploadScreen is rendered, and with it the two handlers it is given
\* (lines 163-165).
uploadScreenMounted == currentScreen = "upload"

\* ResultsScreen is rendered, and with it onNewAnalysis (lines 171-182).
resultsScreenMounted == currentScreen = "result" /\ appSongData.present

\* transformSongData as the App uses it: null for a response without
\* structure (songUtils.js:15), else the chart of that response.
transformOrNull(bd) ==
    IF ~ bd.hasStructure THEN NoChart ELSE [present |-> TRUE, of |-> bd.of]

\* Mutant of screenAfterFailure: the catch leaves the screen alone.
screenAfterFailure_Stays == "processing"

\* setCurrentScreen('upload') of the two catch blocks (lines 80, 150).
screenAfterFailure == "upload"

\* handleFileSelect up to its first await (lines 21-52).
HandleFileSelect(r) ==
    /\ uploadScreenMounted
    /\ IsNext(r)
    /\ fileName' = [of |-> r, from |-> "file"]
    /\ trackInfo' = r
    /\ currentScreen' = "processing"
    /\ requests' = [requests EXCEPT ![r] =
                       [kind |-> "file", rpc |-> "fetch", status |-> "none",
                        read |-> FALSE]]
    /\ UNCHANGED <<rawResult, appSongData, outsideScreens>>

\* handleSpotifySubmit up to its first await, the oembed fetch (lines 84-87).
HandleSpotifySubmit(r) ==
    /\ uploadScreenMounted
    /\ IsNext(r)
    /\ requests' = [requests EXCEPT ![r] =
                       [kind |-> "spotify", rpc |-> "oembed", status |-> "none",
                        read |-> FALSE]]
    /\ UNCHANGED <<currentScreen, fileName, trackInfo, rawResult, appSongData,
                   outsideScreens>>

\* The oembed fetch resolves, and response.json() is awaited (line 88).
OembedResponds(r) ==
    /\ requests[r].rpc = "oembed"
    /\ requests' = [requests EXCEPT ![r].rpc = "oembedBody"]
    /\ UNCHANGED <<currentScreen, fileName, trackInfo, rawResult, appSongData,
                   outsideScreens>>

\* The oembed lookup ends, with the title (lines 89-105) or in its catch
\* (lines 106-110); then lines 112-121 up to the fetch of /download-spotify.
OembedSettles(r, ok) ==
    /\ requests[r].rpc \in {"oembed", "oembedBody"}
    /\ (requests[r].rpc = "oembed" => ~ ok)
    /\ trackInfo' = r
    /\ fileName' = [of |-> r, from |-> IF ok THEN "oembed" ELSE "fallback"]
    /\ currentScreen' = "processing"
    /\ requests' = [requests EXCEPT ![r].rpc = "fetch"]
    /\ UNCHANGED <<rawResult, appSongData, outsideScreens>>

\* The fetch of /process-audio or /download-spotify settles (lines 49-64,
\* 118-133): rejected (network failure, caught at lines 77-81, 147-151), or
\* resolved with a response whose body is then awaited.
FetchSettles(r, status) ==
    /\ requests[r].rpc = "fetch"
    /\ IF status = "network"
       THEN /\ currentScreen' = screenAfterFailure
            /\ requests' = [requests EXCEPT ![r].rpc = "done",
                                            ![r].status = status]
       ELSE /\ requests' = [requests EXCEPT ![r].rpc = "body",
                                            ![r].status = status]
            /\ UNCHANGED currentScreen
    /\ UNCHANGED <<fileName, trackInfo, rawResult, appSongData, outsideScreens>>

\* The body has been read or the read has failed. An error response throws
\* either way; a success response that was read runs lines 66-75 (138-145
\* for Spotify, which also sets the file name from the title).
BodySettles(r, read, hasStructure) ==
    /\ requests[r].rpc = "body"
    /\ requests' = [requests EXCEPT ![r].rpc = "done", ![r].read = read]
    /\ IF requests[r].status = "ok" /\ read
       THEN /\ fileName' = IF requests[r].kind = "spotify"
                           THEN [of |-> r, from |-> "title"]
                           ELSE fileName
            /\ rawResult' = [of |-> r, hasStructure |-> hasStructure]
            /\ appSongData' = transformOrNull([of |-> r, hasStructure |-> hasStructure])
            /\ currentScreen' = "result"
       ELSE /\ currentScreen' = screenAfterFailure
            /\ UNCHANGED <<fileName, rawResult, appSongData>>
    /\ UNCHANGED <<trackInfo, outsideScreens>>

\* handleNewAnalysis (lines 154-159).
HandleNewAnalysis ==
    /\ resultsScreenMounted
    /\ fileName' = NoFileName
    /\ appSongData' = NoChart
    /\ rawResult' = NoRawResult
    /\ currentScreen' = "upload"
    /\ UNCHANGED <<trackInfo, requests, outsideScreens>>

NextScreens ==
    \/ \E r \in Requests : HandleFileSelect(r)
    \/ \E r \in Requests : HandleSpotifySubmit(r)
    \/ \E r \in Requests : OembedResponds(r)
    \/ \E r \in Requests, ok \in BOOLEAN : OembedSettles(r, ok)
    \/ \E r \in Requests, status \in {"ok", "errJson", "errText", "network"} :
           FetchSettles(r, status)
    \/ \E r \in Requests, read \in BOOLEAN, hasStructure \in BOOLEAN :
           BodySettles(r, read, hasStructure)
    \/ HandleNewAnalysis

-----------------------------------------------------------------------------
(* The sidebar App (frontend/src/App.jsx)                                  *)

MaxFiles == 2

MaxProcessCalls == 2

\* The files the user may pick: a name, whether file.type is one of
\* validTypes, and whether file.size is within maxSize.
UserFiles == [id : 1..MaxFiles, typeOk : BOOLEAN, sizeOk : BOOLEAN]

NoAppResult == [present |-> FALSE, of |-> 0, isDemoMode |-> FALSE]

NoPending == [file |-> 0, rpc |-> "none", status |-> "none"]

SidebarIdle ==
    /\ file = 0
    /\ loading = FALSE
    /\ error = "null"
    /\ appResult = NoAppResult
    /\ appProgress = ""
    /\ pending = NoPending
    /\ processCalls = 0

\* useState(null), useState(false), useState('') (lines 10-16).
InitSidebar == SidebarIdle

\* handleFileChange (lines 19-44); the file input is always rendered.
HandleFileChange(f) ==
    /\ IF ~ f.typeOk
       THEN /\ error' = "type"
            /\ file' = 0
            /\ UNCHANGED <<appResult, appProgress>>
       ELSE IF ~ f.sizeOk
       THEN /\ error' = "size"
            /\ file' = 0
            /\ UNCHANGED <<appResult, appProgress>>
       ELSE /\ file' = f.id
            /\ error' = "null"
            /\ appResult' = NoAppResult
            /\ appProgress' = ""
    /\ UNCHANGED <<loading, pending, processCalls, outsideSidebar>>

\* handleDrop (lines 46-67); the drop zone is always rendered.
HandleDrop(f) ==
    /\ IF ~ f.typeOk
       THEN /\ error' = "type"
            /\ UNCHANGED <<file, appResult, appProgress>>
       ELSE IF ~ f.sizeOk
       THEN /\ error' = "size"
            /\ UNCHANGED <<file, appResult, appProgress>>
       ELSE /\ file' = f.id
            /\ error' = "null"
            /\ appResult' = NoAppResult
            /\ appProgress' = ""
    /\ UNCHANGED <<loading, pending, processCalls, outsideSidebar>>

\* The process button: disabled={!file || loading} (line 257).
processEnabled == file # 0 /\ ~ loading

\* handleProcess up to its first await (lines 73-97).
HandleProcess ==
    /\ processEnabled
    /\ processCalls < MaxProcessCalls
    /\ processCalls' = processCalls + 1
    /\ loading' = TRUE
    /\ error' = "null"
    /\ appResult' = NoAppResult
    /\ appProgress' = "processing"
    /\ pending' = [file |-> file, rpc |-> "fetch", status |-> "none"]
    /\ UNCHANGED <<file, outsideSidebar>>

\* setResult({ ...data, isDemoMode: true }) or setResult(data) (lines
\* 106-110); data is the response to the file that was sent.
resultOf(sent, isDemo) ==
    [present |-> TRUE, of |-> sent, isDemoMode |-> isDemo]

\* The fetch of /process-demo settles (lines 94-104): rejected (catch and
\* finally, lines 113-119), or resolved with a response whose body is awaited.
ProcessFetchSettles(status) ==
    /\ pending.rpc = "fetch"
    /\ IF status = "network"
       THEN /\ error' = "failed"
            /\ appProgress' = ""
            /\ loading' = FALSE
            /\ pending' = NoPending
       ELSE /\ pending' = [pending EXCEPT !.rpc = "body", !.status = status]
            /\ UNCHANGED <<error, appProgress, loading>>
    /\ UNCHANGED <<file, appResult, processCalls, outsideSidebar>>

\* response.json() settles: for a success response that was read, lines
\* 104-112 and the finally; otherwise the catch and the finally.
ProcessBodySettles(read, isDemo) ==
    /\ pending.rpc = "body"
    /\ IF pending.status = "ok" /\ read
       THEN /\ appResult' = resultOf(pending.file, isDemo)
            /\ UNCHANGED error
       ELSE /\ error' = "failed"
            /\ UNCHANGED appResult
    /\ appProgress' = ""
    /\ loading' = FALSE
    /\ pending' = NoPending
    /\ UNCHANGED <<file, processCalls, outsideSidebar>>

NextSidebar ==
    \/ \E f \in UserFiles : HandleFileChange(f)
    \/ \E f \in UserFiles : HandleDrop(f)
    \/ HandleProcess
    \/ \E status \in {"ok", "err", "network"} : ProcessFetchSettles(status)
    \/ \E read \in BOOLEAN, isDemo \in BOOLEAN : ProcessBodySettles(read, isDemo)

-----------------------------------------------------------------------------
(* UploadScreen (components/UploadScreen.jsx)                              *)

MaxSelections == 2

\* "Max 20 MB" (line 107), in megabytes.
maxMegabytes == 20

\* The file.type values handleDrop accepts (line 22).
audioTypes == {"audio/mp3", "audio/wav", "audio/mpeg"}

\* Files a user may drop or pick: the accept attribute of the input (line
\* 88) only presets the filter of the picker, which can be switched to all
\* files, and nothing limits what is dragged onto the card.
DroppedFiles ==
    [type : audioTypes \cup {"application/pdf", ""},
     megabytes : {1, maxMegabytes, maxMegabytes + 1}]

UploadIdle ==
    /\ isDragging = FALSE
    /\ selected = <<>>

\* useState(false) (line 5).
InitUpload == UploadIdle

\* handleDragOver (lines 8-11).
HandleDragOver ==
    /\ isDragging' = TRUE
    /\ UNCHANGED <<selected, outsideUpload>>

\* handleDragLeave (lines 13-15).
HandleDragLeave ==
    /\ isDragging' = FALSE
    /\ UNCHANGED <<selected, outsideUpload>>

\* handleDrop (lines 17-25) of UploadScreen.
UploadHandleDrop(f) ==
    /\ Len(selected) < MaxSelections
    /\ isDragging' = FALSE
    /\ selected' = IF f.type \in audioTypes THEN Append(selected, f) ELSE selected
    /\ UNCHANGED outsideUpload

\* handleFileChange (lines 27-32) of UploadScreen.
UploadHandleFileChange(f) ==
    /\ Len(selected) < MaxSelections
    /\ selected' = Append(selected, f)
    /\ UNCHANGED <<isDragging, outsideUpload>>

NextUpload ==
    \/ HandleDragOver
    \/ HandleDragLeave
    \/ \E f \in DroppedFiles : UploadHandleDrop(f)
    \/ \E f \in DroppedFiles : UploadHandleFileChange(f)

-----------------------------------------------------------------------------
(* DemoPreview (components/DemoPreview.jsx)                                *)
(*                                                                         *)
(* The two regular expressions are run on the characters of a token: no    *)
(* match spans whitespace, so the matches of a line are those of its       *)
(* tokens, in order.                                                       *)

isRoot(c) == c \in {"A", "B", "C", "D", "E", "F", "G"}

isAccidental(c) == c \in {"#", "b"}

\* The alternatives of the suffix group, in the order of the pattern:
\* (m|maj|min|sus|dim|aug|add|5|6|7|9|11|13).
suffixes ==
    << <<"m">>, <<"m", "a", "j">>, <<"m", "i", "n">>, <<"s", "u", "s">>,
       <<"d", "i", "m">>, <<"a", "u", "g">>, <<"a", "d", "d">>, <<"5">>,
       <<"6">>, <<"7">>, <<"9">>, <<"1", "1">>, <<"1", "3">> >>

\* pat occurs in cs at position p.
At(cs, p, pat) ==
    /\ p + Len(pat) - 1 <= Len(cs)
    /\ SubSeq(cs, p, p + Len(pat) - 1) = pat

\* (#|b)? after the root at p: the position after it, taken when present.
afterAccidental(cs, p) ==
    IF p + 1 <= Len(cs) /\ isAccidental(cs[p + 1]) THEN p + 2 ELSE p + 1

RECURSIVE afterSuffixes(_, _)
\* (...)* from position q without an anchor: every iteration takes the
\* first alternative that matches, and nothing after the group can fail, so
\* the engine never comes back for a later alternative.
afterSuffixes(cs, q) ==
    IF \E n \in 1..Len(suffixes) : At(cs, q, suffixes[n])
    THEN LET n == CHOOSE m \in 1..Len(suffixes) :
                      /\ At(cs, q, suffixes[m])
                      /\ \A o \in 1..(m - 1) : ~ At(cs, q, suffixes[o])
         IN  afterSuffixes(cs, q + Len(suffixes[n]))
    ELSE q

\* (\/[A-G](#|b)?)? from position q.
afterBass(cs, q) ==
    IF q + 1 <= Len(cs) /\ cs[q] = "/" /\ isRoot(cs[q + 1])
    THEN afterAccidental(cs, q + 1)
    ELSE q

\* The match of chordRegex that starts at the root at p: the position after
\* its last character.
matchEnd(cs, p) == afterBass(cs, afterSuffixes(cs, afterAccidental(cs, p)))

RECURSIVE matchesFrom(_, _)
\* chordRegex.exec in a loop / line.match(chordRegex) with the g flag: the
\* matches from position p on, left to right, as [first, last].
matchesFrom(cs, p) ==
    IF \E q \in p..Len(cs) : isRoot(cs[q])
    THEN LET q == CHOOSE x \in p..Len(cs) :
                      isRoot(cs[x]) /\ \A y \in p..(x - 1) : ~ isRoot(cs[y])
         IN  <<[first |-> q, last |-> matchEnd(cs, q) - 1]>>
                 \o matchesFrom(cs, matchEnd(cs, q))
    ELSE <<>>

RECURSIVE suffixEnds(_, _)
\* The positions the suffix group can stop at from q when the engine may
\* backtrack (the anchored pattern).
suffixEnds(cs, q) ==
    {q} \cup UNION {suffixEnds(cs, q + Len(suffixes[n])) :
                       n \in {m \in 1..Len(suffixes) : At(cs, q, suffixes[m])}}

\* chordPattern.test(t): the anchored pattern matches the whole token.
chordPatternTest(cs) ==
    /\ Len(cs) >= 1
    /\ isRoot(cs[1])
    /\ \E a \in {2, afterAccidental(cs, 1)} :
          \E q \in suffixEnds(cs, a) :
              \/ q = Len(cs) + 1
              \/ (q + 1 <= Len(cs) /\ cs[q] = "/" /\ isRoot(cs[q + 1])
                    /\ Len(cs) + 1 \in {q + 2, afterAccidental(cs, q + 1)})

\* line.startsWith(prefix), for a prefix without whitespace.
lineStartsWith(line, prefix) == Len(line) >= 1 /\ At(line[1], 1, prefix)

isTitle(line) == lineStartsWith(line, <<"T", "i", "t", "l", "e", ":">>)

isKey(line) == lineStartsWith(line, <<"K", "e", "y", ":">>)

\* line.trim().startsWith('[')
isHeader(line) == lineStartsWith(line, <<"[">>)

\* The tokens that pass chordPattern.
chordTokens(line) == {n \in 1..Len(line) : chordPatternTest(line[n])}

\* isChordLine (lines 49-60): ''.split(/\s+/) is [''], so an empty line has
\* one token and no chord.
isChordLine(line) ==
    /\ ~ isTitle(line) /\ ~ isKey(line) /\ ~ isHeader(line)
    /\ Cardinality(chordTokens(line)) > 0
    /\ 2 * Cardinality(chordTokens(line)) > Len(line)

RECURSIVE lineMatchesUpTo(_, _)
\* The matches of chordRegex in the first n tokens of a line, each with its
\* token.
lineMatchesUpTo(line, n) ==
    IF n = 0 THEN <<>>
    ELSE LET ms == matchesFrom(line[n], 1)
         IN  lineMatchesUpTo(line, n - 1)
                 \o [k \in 1..Len(ms) |->
                        [token |-> n, first |-> ms[k].first, last |-> ms[k].last]]

lineMatches(line) == lineMatchesUpTo(line, Len(line))

RECURSIVE chordCountBefore(_, _)
\* chordCountBeforeLine[idx] (lines 62-77), idx counted from 0.
chordCountBefore(ls, idx) ==
    IF idx = 0 THEN 0
    ELSE chordCountBefore(ls, idx - 1)
            + (IF isChordLine(ls[idx]) THEN Len(lineMatches(ls[idx])) ELSE 0)

\* isFundamentalChord (lines 9-12).
isFundamentalChord(text) ==
    text \in {<<"C">>, <<"D">>, <<"E">>, <<"F">>, <<"G">>, <<"A">>, <<"B">>,
              <<"C", "m">>, <<"D", "m">>, <<"E", "m">>, <<"F", "m">>,
              <<"G", "m">>, <<"A", "m">>, <<"B", "m">>}

\* How many chords are shown clearly: currentChordIndex < 3 (line 118).
visibleChords == 3

\* currentChordIndex = baseChordIndex + localChordIndex (lines 109-116) for
\* the k-th match of line idx.
chordIndex(ls, idx, k) == chordCountBefore(ls, idx) + (k - 1)

\* Lyric lines from this index on are blocked after two words (line 27).
openLyricLines == 15

\* renderBlockedLyrics (lines 21-46): the words shown and the words blocked.
renderBlockedLyrics(line, idx) ==
    IF Len(line) = 0 \/ isHeader(line) \/ idx < openLyricLines \/ Len(line) <= 2
    THEN [kind |-> "text", spans |-> <<>>, blocked |-> 0]
    ELSE [kind |-> "text", spans |-> <<>>, blocked |-> Len(line) - 2]

\* renderLine (lines 80-148) for line idx (from 0): for a chord line the
\* chord spans, one per match of chordRegex, with the token each lies in;
\* the text between and after the matches is rendered as it is.
renderLine(ls, idx) ==
    LET line == ls[idx + 1]
    IN  IF isTitle(line) \/ isKey(line) \/ isHeader(line)
        THEN [kind |-> "plain", spans |-> <<>>, blocked |-> 0]
        ELSE IF isChordLine(line)
        THEN LET ms == lineMatches(line)
             IN  [kind   |-> "chords",
                  spans  |-> [k \in 1..Len(ms) |->
                      [token       |-> ms[k].token,
                       first       |-> ms[k].first,
                       last        |-> ms[k].last,
                       fundamental |-> isFundamentalChord(
                           SubSeq(line[ms[k].token], ms[k].first, ms[k].last)),
                       isVisible   |-> chordIndex(ls, idx, k) < visibleChords]],
                  blocked |-> 0]
        ELSE renderBlockedLyrics(line, idx)

-----------------------------------------------------------------------------
(* DemoPreview: inputs                                                     *)

MaxLines == 3

\* Chord symbols of the chart: triads, and symbols of the extended set
\* (7th, dim, major 7th, a slash chord).
ChordSymbols ==
    { <<"C">>, <<"A", "m">>, <<"F", "#", "m", "7">>,
      <<"C", "#", "d", "i", "m", "7">>, <<"C", "m", "a", "j", "7">>,
      <<"D", "m", "a", "j", "7", "/", "F", "#">> }

\* The lines of a formatted chart: metadata, a section header, chord lines
\* of one or two symbols, lyric lines, the empty line.
ChartLines ==
    { << <<"T", "i", "t", "l", "e", ":">>, <<"o", "h">> >>,
      << <<"K", "e", "y", ":">>, <<"C">> >>,
      << <<"[", "V", "e", "r", "s", "e", "]">> >>,
      << <<"o", "h">>, <<"b", "a", "b", "y">> >>,
      << >> }
    \cup {<<c>> : c \in ChordSymbols}
    \cup {<<c, e>> : c \in ChordSymbols, e \in {<<"C">>, <<"A", "m">>}}

FormattedOutputs == UNION {[1..n -> ChartLines] : n \in 1..MaxLines}

-----------------------------------------------------------------------------
(* DemoPreview: the state machine                                          *)

DemoIdle ==
    /\ lines = <<>>
    /\ rendered = <<>>

\* DemoPreview is given a result with a formatted_output (lines 17-18, 150).
InitDemo ==
    /\ lines \in FormattedOutputs
    /\ rendered = <<>>

\* lines.map((line, idx) => renderLine(line, idx)) (lines 191-195), one
\* line at a time.
RenderLine ==
    /\ Len(rendered) < Len(lines)
    /\ rendered' = Append(rendered, renderLine(lines, Len(rendered)))
    /\ UNCHANGED <<lines, outsideDemo>>

NextDemo == RenderLine

UiIdle == ScreensIdle /\ SidebarIdle /\ UploadIdle /\ DemoIdle

-----------------------------------------------------------------------------
(* Specifications                                                          *)

InitSpecChords == InitChords /\ ProcIdle /\ XformIdle /\ UiIdle

SpecChords == InitSpecChords /\ [][NextChords]_vars

InitSpecProc == InitProc /\ ChordsIdle /\ XformIdle /\ UiIdle

SpecProc == InitSpecProc /\ [][NextProc]_vars

\* The event loop runs the continuation of every settled promise: once
\* Promise.all has rejected, the catch of processAudioFile runs.
SpecProcFair ==
    InitSpecProc /\ [][NextProc]_vars /\ \A c \in Calls : WF_vars(ProcessThrows(c))

InitSpecXform == InitXform /\ ChordsIdle /\ ProcIdle /\ UiIdle

SpecXform == InitSpecXform /\ [][NextXform]_vars

InitSpecXformMisaligned == InitXformMisaligned /\ ChordsIdle /\ ProcIdle /\ UiIdle

SpecXformMisaligned == InitSpecXformMisaligned /\ [][NextXform]_vars

\* Each step of the pipeline run twice on the same input: analyzeChords on
\* the same samples, or transformSongData on the same response.
InitSpecTwice ==
    \/ InitChordsTwice /\ ProcIdle /\ XformIdle /\ UiIdle
    \/ InitXform /\ ChordsIdle /\ ProcIdle /\ UiIdle

NextTwice == NextChords \/ AnalyzeAgain \/ NextXform \/ TransformAgain

SpecTwice == InitSpecTwice /\ [][NextTwice]_vars

InitSpecScreens ==
    InitScreens /\ ChordsIdle /\ ProcIdle /\ XformIdle /\ SidebarIdle
        /\ UploadIdle /\ DemoIdle

SpecScreens == InitSpecScreens /\ [][NextScreens]_vars

InitSpecSidebar ==
    InitSidebar /\ ChordsIdle /\ ProcIdle /\ XformIdle /\ ScreensIdle
        /\ UploadIdle /\ DemoIdle

SpecSidebar == InitSpecSidebar /\ [][NextSidebar]_vars

InitSpecUpload ==
    InitUpload /\ ChordsIdle /\ ProcIdle /\ XformIdle /\ ScreensIdle
        /\ SidebarIdle /\ DemoIdle

SpecUpload == InitSpecUpload /\ [][NextUpload]_vars

InitSpecDemo ==
    InitDemo /\ ChordsIdle /\ ProcIdle /\ XformIdle /\ ScreensIdle
        /\ SidebarIdle /\ UploadIdle

SpecDemo == InitSpecDemo /\ [][NextDemo]_vars

-----------------------------------------------------------------------------
(* Claims about analyzeChords                                              *)

LastOf(list) == list[Len(list)]

\* The iteration run last had frames and its best match cleared line 197.
WindowAccepted == win.i >= 0 /\ win.match.frames > 0 /\ aboveThreshold(win.match)

\* The iteration run last appended an event.
WindowPushed == win.i >= 0 /\ Len(chords) = win.lenBefore + 1

\* C1: in the list analyzeChords builds and returns, no two consecutive
\* ChordEvents carry the same chord symbol.
C1_NoAdjacentRepeat ==
    \A n \in 1..(Len(chords) - 1) : chords[n].chord # chords[n + 1].chord

\* C1 witness: a window cleared the threshold with the chord accepted last
\* and was skipped.
C1_Witness ==
    /\ WindowAccepted
    /\ Len(chords) = win.lenBefore
    /\ Len(chords) >= 1
    /\ LastOf(chords).chord = win.match.bestChord

\* C3 (as claimed): for the 10-second synthetic clip analyzeChords returns
\* exactly two events, C at about 3 s and G at about 7 s (within one second).
C3_ClipYieldsCThenG ==
    (apc = "done" /\ audioData = SyntheticClip(sampleRate)) =>
        /\ Len(chords) = 2
        /\ chords[1].chord = "C" /\ chords[1].time \in 20..40
        /\ chords[2].chord = "G" /\ chords[2].time \in 60..80

\* C4 (as claimed): every event carries a confidence strictly above 0.4 and
\* at most 1, and a window whose best similarity does not exceed 0.4 adds no
\* event.
C4_ConfidenceAboveThreshold ==
    /\ \A n \in 1..Len(chords) :
          chords[n].confidence > 40 /\ chords[n].confidence <= 100
    /\ (win.i >= 0 /\ ~ ScoreExceeds(win.match.bestScore, 4, 10))
          => Len(chords) = win.lenBefore

\* C4 (amended): an event is added only by a window whose best similarity
\* strictly exceeds 0.4; the confidence it carries is that similarity rounded
\* to two decimals, which is at least 0.4 and at most 1; a window whose best
\* similarity does not exceed 0.4 adds no event.
C4_RoundedConfidenceInRange ==
    /\ \A n \in 1..Len(chords) :
          chords[n].confidence >= 40 /\ chords[n].confidence <= 100
    /\ WindowPushed =>
          /\ ScoreExceeds(win.match.bestScore, 4, 10)
          /\ LastOf(chords).confidence = roundHundredths(win.match.bestScore)
    /\ (win.i >= 0 /\ ~ ScoreExceeds(win.match.bestScore, 4, 10))
          => Len(chords) = win.lenBefore

\* C4 witness: the list holds an event whose confidence is exactly 0.4, and
\* the window analysed last had frames, stayed at or below 0.4 and added
\* nothing.
C4_Witness ==
    /\ \E n \in 1..Len(chords) : chords[n].confidence = 40
    /\ win.i >= 0 /\ win.match.frames > 0
    /\ win.match.bestChord # "null"
    /\ ~ ScoreExceeds(win.match.bestScore, 4, 10)
    /\ Len(chords) = win.lenBefore

\* avgChroma (normalised) equals the template: num[k] / den = template[k].
IsTemplateChroma(avg, template) ==
    \A k \in Bins : avg.num[k] = avg.den * template[k]

\* C5: for every template, a window whose averaged chroma equals it, and
\* that is not preceded by the same accepted chord, adds an event with that
\* template's chord symbol and confidence 1.0.
C5_TemplateRoundTrip ==
    \A n \in 1..Len(chordTemplates) :
        ( /\ win.i >= 0 /\ win.match.frames > 0
          /\ IsTemplateChroma(win.match.avgChroma, chordTemplates[n].template)
          /\ (win.lenBefore = 0
                \/ chords[win.lenBefore].chord # chordTemplates[n].name) )
        => /\ Len(chords) = win.lenBefore + 1
           /\ LastOf(chords) = [chord      |-> chordTemplates[n].name,
                                time       |-> roundTenths(win.i, sampleRate),
                                confidence |-> 100]

\* C5 witness: a window whose averaged chroma is the last template of the
\* table (Am) follows another accepted chord and has added its event.
C5_Witness ==
    /\ win.i >= 0 /\ win.match.frames > 0
    /\ IsTemplateChroma(win.match.avgChroma, TemplateOf("Am"))
    /\ win.lenBefore = 1 /\ chords[1].chord # "Am"
    /\ Len(chords) = 2

\* The values of i the outer for has run so far.
AnalysedStarts ==
    {i \in {w * segmentLength(sampleRate) : w \in 0..Len(audioData)} :
        i < winStart}

\* The best similarity of the window at sample i exceeds 0.4.
ClearsThreshold(i) ==
    ScoreExceeds(windowMatch(audioData, i, sampleRate).bestScore, 4, 10)

\* C11: when no analysed window of the track has a best similarity above
\* 0.4 (every window all-zero, for example), analyzeChords runs to its return
\* and the list it returns is empty; put the other way round, a returned
\* list that holds an event has a window that cleared the threshold.
C11_NoWindowClearsEmptyList ==
    (apc = "done" /\ chords # <<>>) => \E i \in AnalysedStarts : ClearsThreshold(i)

\* C11 witness: analyzeChords has returned the empty list for a clip of two
\* analysed windows, the last of them silent (all-zero chroma, no template
\* chosen) and the first not silent but below the threshold.
C11_Witness ==
    /\ apc = "done"
    /\ chords = <<>>
    /\ win.i = segmentLength(sampleRate)
    /\ win.match.frames > 0
    /\ win.match.bestChord = "null"
    /\ windowMatch(audioData, 0, sampleRate).bestChord # "null"

MajorNames == <<"C", "C#", "D", "D#", "E", "F", "F#", "G", "G#", "A", "A#", "B">>

MinorNames ==
    <<"Cm", "C#m", "Dm", "D#m", "Em", "Fm", "F#m", "Gm", "G#m", "Am", "A#m", "Bm">>

\* The pattern with ones exactly at root, root + third and root + 7 (mod 12).
Triad(root, third) ==
    Vec([k \in Bins |->
            IF (k - 1) \in {root, (root + third) % 12, (root + 7) % 12}
            THEN 1 ELSE 0])

\* The pattern expected for a chord symbol: a major triad for X, a minor
\* triad for Xm.
ExpectedTemplate(chordName) ==
    IF \E r \in 0..11 : MajorNames[r + 1] = chordName
    THEN Triad(CHOOSE r \in 0..11 : MajorNames[r + 1] = chordName, 4)
    ELSE Triad(CHOOSE r \in 0..11 : MinorNames[r + 1] = chordName, 3)

\* C20 (as claimed): every template of the table is the pattern expected for
\* its name: ones exactly at root, root + 4 and root + 7 for a major chord,
\* at root, root + 3 and root + 7 for a minor chord, zeros elsewhere. Stated
\* for the template of the chord a window is matched to; every template of
\* the table is the best match of some input window.
C20_TemplatesMatchNames ==
    \A n \in 1..Len(chordTemplates) :
        win.match.bestChord = chordTemplates[n].name =>
            chordTemplates[n].template = ExpectedTemplate(chordTemplates[n].name)

\* The names of the table.
TemplateNames == {chordTemplates[n].name : n \in 1..Len(chordTemplates)}

\* C21 (as claimed): the table analyzeChords matches its windows against
\* holds a template for each of the 12 major triads and each of the 12 minor
\* triads.
C21_AllTriadsInTable ==
    apc \in {"loop", "done"} =>
        \A r \in 0..11 :
            MajorNames[r + 1] \in TemplateNames /\ MinorNames[r + 1] \in TemplateNames

\* The complete windows of the input and the complete frames of a window.
completeWindows == audioLength(audioData) \div segmentLength(sampleRate)

completeFrames ==
    ((segmentLength(sampleRate) - frameSize) \div hopSize) + 1

\* C22 (as claimed): when analyzeChords returns it has run one iteration for
\* every complete two-second window of the input, and an iteration has
\* extracted one chroma for every complete 4096-sample frame at hop 2048 of
\* its window.
C22_EveryCompleteWindowAnalysed ==
    /\ apc = "done" =>
          winStart = completeWindows * segmentLength(sampleRate)
    /\ (win.i >= 0 /\ win.i + segmentLength(sampleRate) <= audioLength(audioData))
          => win.match.frames = completeFrames

\* With dm and dn the dot products of a chroma with templates m and n: the
\* similarity to m is below (equal to) the similarity to n. The cosines are
\* compared by their squares, all dot products being >= 0.
SimilarityLess(dm, m, dn, n) ==
    dm * dm * normB(chordTemplates[n].template)
        < dn * dn * normB(chordTemplates[m].template)

SimilarityEqual(dm, m, dn, n) ==
    dm * dm * normB(chordTemplates[n].template)
        = dn * dn * normB(chordTemplates[m].template)

\* C23: the chord chosen for a window is the first one, in the insertion
\* order of the table (the major triads, then the minor ones), among the
\* templates that reach the highest similarity: no template is more similar,
\* and every earlier template is strictly less similar.
C23_TieGoesToFirstTemplate ==
    \A n \in 1..Len(chordTemplates) :
        (win.i >= 0 /\ win.match.frames > 0
            /\ win.match.bestChord = chordTemplates[n].name)
        => \A dn \in {dotProduct(win.match.avgChroma, chordTemplates[n].template)} :
             \A m \in 1..Len(chordTemplates) :
               \A dm \in {dotProduct(win.match.avgChroma, chordTemplates[m].template)} :
                  /\ ~ SimilarityLess(dn, n, dm, m)
                  /\ m < n => SimilarityLess(dm, m, dn, n)

\* C23 witness: a window whose chroma is equally similar to C, G and Em, one
\* major triad later in the table and one minor triad, was resolved to C.
C23_Witness ==
    /\ win.i >= 0 /\ win.match.frames > 0
    /\ win.match.bestChord = "C"
    /\ SimilarityEqual(dotProduct(win.match.avgChroma, chordTemplates[8].template), 8,
                       dotProduct(win.match.avgChroma, chordTemplates[1].template), 1)
    /\ SimilarityEqual(dotProduct(win.match.avgChroma, chordTemplates[15].template), 15,
                       dotProduct(win.match.avgChroma, chordTemplates[1].template), 1)

-----------------------------------------------------------------------------
(* Claims about the Whisper singleton and processAudioFile                 *)

Range(seq) == {seq[n] : n \in 1..Len(seq)}

\* C2 (as claimed): over any interleaving of concurrent calls the Whisper
\* pipeline is constructed at most once, and no two loads are ever in
\* progress together (a caller arriving during a load waits for it).
C2_PipelineConstructedOnce ==
    /\ pipelinesBuilt <= 1
    /\ Cardinality({c \in Calls : tpc[c] = "loading"}) <= 1

\* C10: processAudioFile returns its result, and reports 'complete', only
\* after both its transcription and its chord detection have completed; the
\* result holds the output of its own two tasks; and when either task has
\* failed no result is returned.
C10_JoinAfterBothTasks ==
    \A c \in Calls :
        /\ (ppc[c] = "returned" \/ "complete" \in Range(progress[c])
                \/ result[c] # NoResult)
              => (tpc[c] = "done" /\ dpc[c] = "done")
        /\ ppc[c] = "returned"
              => result[c] = [text     |-> <<"transcription", c, "done">>,
                              chords   |-> <<"chords", c, "done">>,
                              filename |-> c]
        /\ anyFailed(tpc[c], dpc[c])
              => (result[c] = NoResult /\ ppc[c] # "returned")

\* C10 witness: one call has returned its result after both of its tasks,
\* and another has thrown because its transcription failed while its chord
\* detection succeeded.
C10_Witness ==
    \E c, e \in Calls :
        /\ ppc[c] = "returned" /\ "complete" \in Range(progress[c])
        /\ ppc[e] = "thrown" /\ tpc[e] = "failed" /\ dpc[e] = "done"

\* The call of transcriber(...) made by call c has failed: the transcription
\* failed after the transcriber was called.
TranscriberFailed(c) == tpc[c] = "failed" /\ transcriberCalls[c] >= 1

\* C15: transcribeAudio calls the external transcriber at most once; when
\* that call has failed it has been made exactly once, processAudioFile
\* returns no result, and the failure reaches its caller: processAudioFile
\* throws.
C15_TranscriberFailureNotRetried ==
    /\ [](\A c \in Calls :
            /\ transcriberCalls[c] <= 1
            /\ TranscriberFailed(c) =>
                  /\ transcriberCalls[c] = 1
                  /\ ppc[c] \in {"awaiting", "thrown"}
                  /\ result[c] = NoResult)
    /\ \A c \in Calls : TranscriberFailed(c) ~> (ppc[c] = "thrown")

\* C15 witness: the transcriber of a call has failed after a single call,
\* its chord detection has succeeded, and processAudioFile has thrown.
C15_Witness ==
    \E c \in Calls :
        /\ TranscriberFailed(c)
        /\ transcriberCalls[c] = 1
        /\ dpc[c] = "done"
        /\ ppc[c] = "thrown"
        /\ result[c] = NoResult

-----------------------------------------------------------------------------
(* Claims about transformSongData                                          *)

\* The sections tile [0, d].
Tiles(ss, d) ==
    /\ Len(ss) >= 1
    /\ ss[1].start = 0
    /\ ss[Len(ss)].end = d
    /\ \A n \in 1..(Len(ss) - 1) : ss[n].end = ss[n + 1].start

HasWordTimes(seg) == seg.hasWords /\ Len(seg.words) > 0

Inside(c, w) == c.time >= w.start /\ c.time < w.end

\* In both returned charts, chord c is in the chord cell above word j of
\* line k of section n.
AttachedTo(c, n, k, j) ==
    /\ c.chord \in Range(songData.lyrics[n][k].chords[j])
    /\ c.chord \in Range(songDataApp.lyrics[n][k].chords[j])

\* C7 (as claimed): every aligned chord whose time lies in [w.start, w.end)
\* of a timestamped word w of a segment is attached to that word in the
\* segment's line, all of them when several fall inside the same word.
C7_ChordsInsideWordAttached ==
    xpc = "done" =>
        \A n \in 1..Len(songData.sections) :
            LET segs == sectionSegments(backendData, songData.sections[n])
            IN  \A k \in 1..Len(segs) :
                    HasWordTimes(segs[k]) =>
                        \A j \in 1..Len(segs[k].words) :
                            \A c \in Range(backendData.aligned_chords) :
                                Inside(c, segs[k].words[j])
                                    => AttachedTo(c, n, k, j)

\* The words (k, j) of the segments segs that start in the section at or
\* after time t.
FollowingWords(segs, sec, t) ==
    {kj \in (1..Len(segs)) \X (1..MaxWords + 1) :
        /\ kj[2] <= Len(segs[kj[1]].words)
        /\ segs[kj[1]].words[kj[2]].start >= t
        /\ segs[kj[1]].words[kj[2]].start < sec.end}

\* C8 (as claimed): an aligned chord whose time falls in a lyric-bearing
\* section but inside no word is attached to the nearest following word of
\* that section; in a section without words the chords of the section are
\* attached to the section's chord-only line.
C8_GapChordOnFollowingWord ==
    xpc = "done" =>
        \A n \in 1..Len(songData.sections) :
            LET sec  == songData.sections[n]
                segs == sectionSegments(backendData, sec)
                cs   == sectionChords(backendData, sec)
            IN  /\ (Len(segs) > 0 /\ \A k \in 1..Len(segs) : HasWordTimes(segs[k]))
                     => \A c \in Range(cs) :
                          LET fw == FollowingWords(segs, sec, c.time)
                          IN  ( /\ \A k \in 1..Len(segs) :
                                     \A j \in 1..Len(segs[k].words) :
                                         ~ Inside(c, segs[k].words[j])
                                /\ fw # {} )
                              => \E kj \in fw :
                                    /\ \A o \in fw :
                                         segs[kj[1]].words[kj[2]].start
                                             <= segs[o[1]].words[o[2]].start
                                    /\ AttachedTo(c, n, kj[1], kj[2])
                /\ (Len(segs) = 0 /\ Len(cs) > 0)
                     => /\ Len(songData.lyrics[n]) = 1
                        /\ \A m \in 1..Len(cs) : AttachedTo(cs[m], n, 1, m)

FirstToken(str) == IF str = <<>> THEN "" ELSE str[1]

\* The line puts all the chords cs on its first word, which begins the text,
\* and no chord on any other word.
AllChordsOnFirstWord(line, cs, text) ==
    /\ Len(line.chords) >= 1
    /\ Len(line.words) >= 1
    /\ line.chords[1] = [m \in 1..Len(cs) |-> cs[m].chord]
    /\ \A j \in 2..Len(line.chords) : line.chords[j] = <<>>
    /\ FirstToken(line.words[1]) = FirstToken(text)

\* C9: for a segment whose words array is null, omitted or empty,
\* transformSongData returns a line that carries all the chords whose time
\* lies in the segment's interval on its first word and none on any other
\* word.
C9_NoWordsChordsOnFirstWord ==
    xpc = "done" =>
        \A n \in 1..Len(songData.sections) :
            LET segs == sectionSegments(backendData, songData.sections[n])
            IN  \A k \in 1..Len(segs) :
                    ~ HasWordTimes(segs[k]) =>
                        /\ AllChordsOnFirstWord(songData.lyrics[n][k],
                               chordsInSeg(backendData, segs[k]), segs[k].text)
                        /\ AllChordsOnFirstWord(songDataApp.lyrics[n][k],
                               chordsInSeg(backendData, segs[k]), segs[k].text)

\* C9 witness: a segment with words null and a text of two words, with two
\* chords in its interval, has got its line in both charts.
C9_Witness ==
    /\ xpc = "done"
    /\ \E n \in 1..Len(songData.sections) :
         LET segs == sectionSegments(backendData, songData.sections[n])
         IN  \E k \in 1..Len(segs) :
                /\ ~ segs[k].hasWords
                /\ Len(segs[k].text) = 2
                /\ Len(chordsInSeg(backendData, segs[k])) = 2
                /\ Len(songDataApp.lyrics[n][k].chords[1]) = 2
                /\ Len(songData.lyrics[n][k].chords[1]) = 2

-----------------------------------------------------------------------------
(* Claims about the rendered chart                                         *)

\* C12 (as claimed): for a backend result whose chord list is empty the
\* chart is built without exception and every section of it carries an
\* explicit chordless marker; in particular no section is left without any
\* line, neither in the chart transformSongData returns nor in the sections
\* ResultsScreen renders from it.
C12_ChordlessSectionsMarked ==
    (xpc = "shown" /\ backendData.aligned_chords = <<>>) =>
        \A n \in 1..Len(lyricsData) :
            /\ Len(songData.lyrics[n]) > 0
            /\ Len(lyricsData[n].lines) > 0

\* C13 (as claimed): when the structure given to transformSongData does not
\* tile [0, duration], the call fails with an error: it never returns a
\* chart.
C13_MisalignedStructureFails ==
    ~ Tiles(backendData.structure, duration) => xpc = "call"

\* The sum of the lengths of the words before index idx (0-based), plus one
\* space for each of them.
PrecedingLength(words, idx) ==
    SumTo([j \in 1..idx |-> Len(StrChars(words[j])) + 1], idx)

\* The characters w stand in text from the character index p on (0-based),
\* at the start of the text or after a space.
StartsAt(text, w, p) ==
    /\ p + Len(w) <= Len(text)
    /\ SubSeq(text, p + 1, p + Len(w)) = w
    /\ (p = 0 \/ text[p] = " ")

\* C16 (as claimed): in every line built by useAdaptedData, the position
\* recorded for a chord is the sum of the lengths of the words before the
\* chord's word plus one space per such word, and the chord's word starts at
\* that character index of the line's rendered lyrics string.
C16_PositionIsWordStart ==
    xpc = "shown" =>
        \A n \in 1..Len(lyricsData) :
            \A k \in 1..Len(lyricsData[n].lines) :
                LET raw  == songData.lyrics[n][k]
                    line == lyricsData[n].lines[k]
                    ci   == chordIndexes(raw)
                IN  /\ Len(line.positions) = Len(ci)
                    /\ \A m \in 1..Len(ci) :
                          /\ line.positions[m] = PrecedingLength(raw.words, ci[m])
                          /\ StartsAt(line.lyrics, StrChars(raw.words[ci[m] + 1]),
                                      line.positions[m])

\* No segment of the transcript overlaps the section.
NoSegmentIn(sec) ==
    \A seg \in Range(backendData.segments) :
        seg.end <= sec.start \/ seg.start >= sec.end

\* The chord symbols of the aligned chords with time in [sec.start, sec.end),
\* in the order of the list, each as a chord cell.
ChordCellsOf(sec) ==
    LET cs == SelectSeq(backendData.aligned_chords,
                        LAMBDA c : c.time >= sec.start /\ c.time < sec.end)
    IN  [m \in 1..Len(cs) |-> <<cs[m].chord>>]

\* C17 (as claimed): a section that contains no transcript segment is
\* rendered as a single chord-only line, which lists exactly the chords with
\* time in [section.start, section.end) in temporal order and whose lyric
\* text is empty.
C17_InstrumentalSingleChordLine ==
    xpc = "shown" =>
        \A n \in 1..Len(lyricsData) :
            NoSegmentIn(songData.sections[n]) =>
                /\ Len(lyricsData[n].lines) = 1
                /\ lyricsData[n].lines[1].chords = ChordCellsOf(songData.sections[n])
                /\ lyricsData[n].lines[1].lyrics = <<>>

\* C18 (as claimed): every line of the chart transformSongData of
\* songUtils.js returns has chords and words of equal length, and the line of
\* a segment with timestamped words holds each word of the segment exactly
\* once, in order.
C18_ChordsAndWordsSameLength ==
    xpc \in {"app", "done", "shown"} =>
        \A n \in 1..Len(songData.sections) :
            LET segs == sectionSegments(backendData, songData.sections[n])
            IN  \A k \in 1..Len(songData.lyrics[n]) :
                    LET line == songData.lyrics[n][k]
                    IN  /\ Len(line.chords) = Len(line.words)
                        /\ (Len(segs) > 0 /\ HasWordTimes(segs[k])) =>
                              line.words = [j \in 1..Len(segs[k].words) |->
                                              <<segs[k].words[j].word>>]

\* The sections of the chart in which segment k is rendered: those whose
\* lines hold, at the segment's place among the section's segments, the line
\* made from it.
SectionsRendering(k) ==
    {n \in 1..Len(songData.sections) :
        LET segs == sectionSegments(backendData, songData.sections[n])
        IN  \E m \in 1..Len(segs) :
                /\ segs[m] = backendData.segments[k]
                /\ m <= Len(songData.lyrics[n])
                /\ songData.lyrics[n][m] = segmentLine(backendData, segs[m])}

\* C27 (as claimed): for sections that tile the track, every transcript
\* segment is rendered in exactly one section of the chart: none is dropped
\* and none appears in the lines of two sections.
C27_SegmentInExactlyOneSection ==
    (xpc \in {"app", "done", "shown"} /\ Tiles(backendData.structure, duration))
        => \A k \in 1..Len(backendData.segments) :
              Cardinality(SectionsRendering(k)) = 1

-----------------------------------------------------------------------------
(* Claims about repeated runs                                              *)

-----------------------------------------------------------------------------
(* Claims about the screen-based App                                       *)

\* The analysis requests in flight: /process-audio or /download-spotify has
\* been sent and its handler has not finished with the response.
InFlight == {r \in Requests : requests[r].rpc \in {"fetch", "body"}}

C26_ResultScreenHasSongData ==
    currentScreen = "result" => appSongData.present

\* The request got a success response and its body was read.
Succeeded(req) == req.status = "ok" /\ req.read

\* C28: the step in which an analysis request settles puts the App on
\* 'result' when the request succeeded and on 'upload' when it failed (HTTP
\* error with a JSON or a non-JSON body, network failure, unreadable body),
\* and the App is never on 'processing' with no request in flight.
C28_SettledLeavesProcessing ==
    /\ [](InFlight = {} => currentScreen # "processing")
    /\ [][\A r \in Requests :
            (r \in InFlight /\ requests'[r].rpc = "done")
                => currentScreen' = IF Succeeded(requests'[r])
                                    THEN "result" ELSE "upload"]_vars

\* C28 witness: one request has succeeded, a later one has failed with a
\* non-JSON error response, and the App is back on the upload screen.
C28_Witness ==
    /\ currentScreen = "upload"
    /\ InFlight = {}
    /\ \E r, q \in Requests :
          /\ r < q
          /\ requests[r].rpc = "done" /\ Succeeded(requests[r])
          /\ requests[q].rpc = "done" /\ requests[q].status = "errText"

-----------------------------------------------------------------------------
(* Claims about the sidebar App                                            *)

\* C25 (as claimed): a result that is displayed while a file is selected was
\* computed from that file.
C25_ResultOfSelectedFile ==
    (appResult.present /\ file # 0) => appResult.of = file

-----------------------------------------------------------------------------
(* Claims about UploadScreen                                               *)

\* C30 (as claimed): every file UploadScreen has passed to onFileSelect,
\* dropped or picked, is an MP3 or WAV file of at most 20 MB.
C30_OnlySmallAudioPassed ==
    \A n \in 1..Len(selected) :
        selected[n].type \in audioTypes /\ selected[n].megabytes <= maxMegabytes

-----------------------------------------------------------------------------
(* Claims about DemoPreview                                                *)

\* A chord line of the chart: a line made of chord symbols only.
IsChartChordLine(line) ==
    Len(line) >= 1 /\ \A n \in 1..Len(line) : line[n] \in ChordSymbols

RECURSIVE ChordsBeforeLine(_)
\* The number of chord symbols on the chord lines before line i.
ChordsBeforeLine(i) ==
    IF i = 1 THEN 0
    ELSE ChordsBeforeLine(i - 1)
            + (IF IsChartChordLine(lines[i - 1]) THEN Len(lines[i - 1]) ELSE 0)

\* The spans renderLine made inside token j of line i.
SpansOf(i, j) ==
    {rendered[i].spans[k] : k \in {x \in 1..Len(rendered[i].spans) :
                                       rendered[i].spans[x].token = j}}

\* No part of the symbol is blurred.
ShownClearly(i, j) == \A sp \in SpansOf(i, j) : sp.isVisible

\* The whole symbol lies in one blurred span.
Blurred(i, j) ==
    \E sp \in SpansOf(i, j) :
        ~ sp.isVisible /\ sp.first = 1 /\ sp.last = Len(lines[i][j])

\* C29 (as claimed): counting the chord symbols of all chord lines in
\* reading order, the first three are shown clearly and every later one is
\* blurred.
C29_FirstThreeChordsClear ==
    \A i \in 1..Len(rendered) :
        IsChartChordLine(lines[i]) =>
            \A j \in 1..Len(lines[i]) :
                IF ChordsBeforeLine(i) + j <= 3
                THEN ShownClearly(i, j)
                ELSE Blurred(i, j)

====
